---- MODULE Spec2Model ----
(***************************************************************************)
(* Model of ntfy2telegram (src/app.py): the websocket callbacks, the       *)
(* formatter parse_message and the sender telegram_send_message.           *)
(*                                                                         *)
(* Texts are sequences of strings.  Bodies and click URLs are sequences of *)
(* single characters, because escape_markdown_v2 works per character; a    *)
(* topic, a title, a glyph and a literal of an f-string are one element    *)
(* each, because the code only concatenates them.                          *)
(* An optional JSON field is <<>> when the key is absent and <<v>> when it *)
(* is present with value v.                                                *)
(***************************************************************************)
EXTENDS Integers, Sequences, FiniteSets, TLC

VARIABLES
    env,            \* the global Env object: the two display toggles
    conn,           \* state of the connection driven by run_forever
    frames,         \* every frame received on the socket so far, in arrival order
    pending,        \* ids of the received frames not yet handed to ws_on_message
    pc,             \* "idle", or "sending" while ws_on_message blocks in requests.request
    sends,          \* the calls of telegram_send_message: [id, text]
    responses,      \* the outcome of each finished call, in the order of sends
    results,        \* how each finished ws_on_message invocation ended: [id, exc]
    log,            \* the log records written so far: [level, by, frame]
    fmsg,           \* parse_message: its argument
    fpc,            \* parse_message: its position
    text_content,   \* parse_message: its local text_content
    non_emoji_tags, \* parse_message: its local non_emoji_tags
    fexc            \* parse_message: the exception it raised, or NoExc

vars == <<env, conn, frames, pending, pc, sends, responses, results, log,
          fmsg, fpc, text_content, non_emoji_tags, fexc>>

connVars == <<conn, frames, pending, pc, sends, responses, results, log>>
fmtVars == <<fmsg, fpc, text_content, non_emoji_tags, fexc>>

\* ---------------------------------------------------------------- bounds
MaxFrames == 2      \* frames received in one run
MaxBody == 1        \* characters of a body
MaxTags == 2        \* tags of a message

\* ------------------------------------------------------------- constants
DefaultPriority == 3

NoExc == "None"

\* ------------------------------------------------------------ glyph tables
\* emoji.rawEmojis: tag -> glyph.  Tags outside its domain are unmapped.
emoji_map == [t \in {"warning", "tada"} |->
                IF t = "warning" THEN "<rotating_light>" ELSE "<tada>"]

\* emoji.priorityEmojis: five glyphs, indexed by priority - 1.
priority_emoji == <<"<p1>", "<p2>", "<p3>", "<p4>", "<p5>">>

\* Python's list[i] for an integer i: negative indices count from the end,
\* anything outside -len..len-1 raises IndexError.
PyIndexOk(list, i) == (0 <= i /\ i < Len(list)) \/ (i < 0 /\ -Len(list) <= i)

PyIndex(list, i) == IF i >= 0 THEN list[i + 1] ELSE list[Len(list) + i + 1]

\* --------------------------------------------------------------- escaping
\* The backquote cannot be written in a TLA+ string: "BACKQUOTE" stands for it.
escape_chars == {"_", "*", "[", "]", "(", ")", "~", "BACKQUOTE", ">", "#", "+", "-",
                 "=", "|", "{", "}", ".", "!"}

RECURSIVE escape_markdown_v2(_)
escape_markdown_v2(text) ==
    IF text = <<>> THEN <<>>
    ELSE (IF Head(text) \in escape_chars THEN <<"\\", Head(text)>> ELSE <<Head(text)>>)
         \o escape_markdown_v2(Tail(text))

\* md2tgmd.escape is an external converter; its result for a body is kept
\* as an uninterpreted term around the raw body.
md2tgmd_escape(body) == <<"md2tgmd.escape(">> \o body \o <<")">>

\* ','.join(tags)
RECURSIVE join(_)
join(tags) ==
    IF tags = <<>> THEN <<>>
    ELSE IF Len(tags) = 1 THEN <<tags[1]>>
    ELSE <<tags[1], ",">> \o join(Tail(tags))

\* ------------------------------------------------------------ JSON objects
Has(message, key) == message[key] # <<>>

\* dict.get(key, default)
Get(message, key, default) == IF Has(message, key) THEN message[key][1] ELSE default

IncludeTopic == env.ntfy_include_topic = "True"
IncludePriority == env.ntfy_include_priority = "True"

\* ------------------------------------------------------------ parse_message
\* convert_tags with the unmapped tags collected in front: their order is lost.
RECURSIVE convert_tags_prepend(_, _)
convert_tags_prepend(tags, acc) ==
    IF tags = <<>> THEN acc
    ELSE LET tag == Head(tags) IN
         convert_tags_prepend(Tail(tags),
            IF tag \in DOMAIN emoji_map
            THEN [acc EXCEPT !.text_content = @ \o <<emoji_map[tag]>>, !.hasEmojis = TRUE]
            ELSE [acc EXCEPT !.non_emoji_tags = <<tag>> \o @])

\* The loop over tags: acc is [text_content, non_emoji_tags, hasEmojis].
RECURSIVE convert_tags(_, _)
convert_tags(tags, acc) ==
    IF tags = <<>> THEN acc
    ELSE LET tag == Head(tags) IN
         convert_tags(Tail(tags),
            IF tag \in DOMAIN emoji_map
            THEN [acc EXCEPT !.text_content = @ \o <<emoji_map[tag]>>, !.hasEmojis = TRUE]
            ELSE [acc EXCEPT !.non_emoji_tags = Append(@, tag)])

\* parse_head with the blank line decided by the title alone.
parse_head_title_only(message) ==
    LET tags == Get(message, "tags", <<>>)
        priority == Get(message, "priority", DefaultPriority)
        t0 == IF IncludeTopic /\ Has(message, "topic")
              THEN <<message.topic[1], "\n">> ELSE <<>>
        a1 == IF Len(tags) # 0
              THEN convert_tags(tags, [text_content |-> t0, non_emoji_tags |-> <<>>,
                                       hasEmojis |-> FALSE])
              ELSE [text_content |-> t0, non_emoji_tags |-> <<>>, hasEmojis |-> FALSE]
        t1 == IF a1.hasEmojis THEN a1.text_content \o <<" ">> ELSE a1.text_content
        t2 == IF Has(message, "title") THEN t1 \o <<message.title[1], " ">> ELSE t1
    IN  IF IncludePriority /\ ~PyIndexOk(priority_emoji, priority - 1)
        THEN [exc |-> "IndexError", text_content |-> t2,
              non_emoji_tags |-> a1.non_emoji_tags]
        ELSE LET t3 == IF IncludePriority
                       THEN t2 \o <<PyIndex(priority_emoji, priority - 1)>> ELSE t2
                 t4 == IF Has(message, "title") THEN t3 \o <<"\n\n">> ELSE t3
             IN [exc |-> NoExc, text_content |-> t4,
                 non_emoji_tags |-> a1.non_emoji_tags]

\* parse_message up to the point where the body is appended.
parse_head(message) ==
    LET tags == Get(message, "tags", <<>>)
        priority == Get(message, "priority", DefaultPriority)
        t0 == IF IncludeTopic /\ Has(message, "topic")
              THEN <<message.topic[1], "\n">> ELSE <<>>
        a1 == IF Len(tags) # 0
              THEN convert_tags(tags, [text_content |-> t0, non_emoji_tags |-> <<>>,
                                       hasEmojis |-> FALSE])
              ELSE [text_content |-> t0, non_emoji_tags |-> <<>>, hasEmojis |-> FALSE]
        t1 == IF a1.hasEmojis THEN a1.text_content \o <<" ">> ELSE a1.text_content
        t2 == IF Has(message, "title") THEN t1 \o <<message.title[1], " ">> ELSE t1
    IN  IF IncludePriority /\ ~PyIndexOk(priority_emoji, priority - 1)
        THEN [exc |-> "IndexError", text_content |-> t2,
              non_emoji_tags |-> a1.non_emoji_tags]
        ELSE LET t3 == IF IncludePriority
                       THEN t2 \o <<PyIndex(priority_emoji, priority - 1)>> ELSE t2
                 t4 == IF Has(message, "title")
                          \/ (IncludePriority /\ priority # DefaultPriority)
                       THEN t3 \o <<"\n\n">> ELSE t3
             IN [exc |-> NoExc, text_content |-> t4,
                 non_emoji_tags |-> a1.non_emoji_tags]

\* parse_message from the body on.  mdNone is the external converter's answer
\* to a missing body: TRUE when it raises.
parse_tail(message, text, rest, mdNone) ==
    LET isMarkdown == Has(message, "content_type")
                      /\ message.content_type[1] = "text/markdown"
    IN  IF ~Has(message, "message") /\ (~isMarkdown \/ mdNone)
        THEN [exc |-> "TypeError", text_content |-> text]
        ELSE LET b == IF isMarkdown
                      THEN (IF Has(message, "message")
                            THEN md2tgmd_escape(message.message[1])
                            ELSE md2tgmd_escape(<<"None">>))
                      ELSE escape_markdown_v2(message.message[1])
                 t5 == text \o b
                 t6 == IF Len(rest) # 0 THEN t5 \o <<"\ntags: ">> \o join(rest) ELSE t5
                 t7 == IF Has(message, "click")
                       THEN t6 \o <<"\n[">> \o escape_markdown_v2(message.click[1])
                               \o <<"](">> \o message.click[1] \o <<")">>
                       ELSE t6
             IN [exc |-> NoExc, text_content |-> t7]

parse_message(message, mdNone) ==
    LET h == parse_head(message) IN
    IF h.exc # NoExc THEN [exc |-> h.exc, text_content |-> <<>>]
    ELSE parse_tail(message, h.text_content, h.non_emoji_tags, mdNone)

\* ------------------------------------------------------------ input domains
Opt(S) == {<<>>} \cup {<<v>> : v \in S}

SeqUpTo(S, n) == UNION {[1..k -> S] : k \in 0..n}

Toggles == {"True", "False"}

Envs == [ntfy_include_topic : Toggles, ntfy_include_priority : Toggles]

Bodies == SeqUpTo({"a", "."}, MaxBody)

Tags == {"warning", "tada", "foo", "bar"}

Priorities == {-5, -4, 0, 1, 3, 5, 6}

ContentTypes == {"text/markdown", "text/plain"}

Clicks == {<<"x", ".", "y">>}

\* The JSON objects parse_message is applied to.
Messages ==
    [event : {<<"message">>}, topic : Opt({"alerts"}), title : Opt({"Disk Full"}),
     message : Opt(Bodies), tags : Opt(SeqUpTo(Tags, MaxTags)),
     priority : Opt(Priorities), content_type : Opt(ContentTypes),
     click : Opt(Clicks)]

NoMessage ==
    [event |-> <<>>, topic |-> <<>>, title |-> <<>>, message |-> <<>>, tags |-> <<>>,
     priority |-> <<>>, content_type |-> <<>>, click |-> <<>>]

\* --------------------------------------------- parse_message, step by step
FmtIdle ==
    /\ fmsg = NoMessage
    /\ fpc = "idle"
    /\ text_content = <<>>
    /\ non_emoji_tags = <<>>
    /\ fexc = NoExc

ConnIdle ==
    /\ conn = "Disconnected"
    /\ frames = <<>>
    /\ pending = <<>>
    /\ pc = "idle"
    /\ sends = <<>>
    /\ responses = <<>>
    /\ results = <<>>
    /\ log = <<>>

FmtInit ==
    /\ env \in Envs
    /\ fmsg \in Messages
    /\ fpc = "start"
    /\ text_content = <<>>
    /\ non_emoji_tags = <<>>
    /\ fexc = NoExc
    /\ ConnIdle

\* Lines 111-159: the fields are read and the text before the body is built.
ParseHead ==
    /\ fpc = "start"
    /\ LET h == parse_head(fmsg) IN
        /\ text_content' = h.text_content
        /\ non_emoji_tags' = h.non_emoji_tags
        /\ fexc' = h.exc
        /\ fpc' = IF h.exc = NoExc THEN "body" ELSE "raised"
    /\ UNCHANGED <<env, fmsg, connVars>>

\* Lines 161-179: the body, the remaining tags and the click link are appended.
ParseTail ==
    /\ fpc = "body"
    /\ \E mdNone \in BOOLEAN :
        LET r == parse_tail(fmsg, text_content, non_emoji_tags, mdNone) IN
        /\ text_content' = r.text_content
        /\ fexc' = r.exc
        /\ fpc' = IF r.exc = NoExc THEN "done" ELSE "raised"
    /\ UNCHANGED <<env, fmsg, non_emoji_tags, connVars>>

FmtNext == ParseHead \/ ParseTail

FmtSpec == FmtInit /\ [][FmtNext]_vars

\* -------------------------------------------------------------- the frames
\* A frame is a text: not JSON at all, JSON that is no object, or an object.
Objects ==
    [event : Opt({"keepalive", "message"}), topic : Opt({"alerts"}), title : {<<>>},
     message : Opt({<<".">>}), tags : {<<>>}, priority : Opt({6}),
     content_type : {<<>>}, click : {<<>>}]

Frames ==
    [json : {"invalid", "number", "array"}, obj : {NoMessage}]
    \cup [json : {"object"}, obj : Objects]

Rec(level, by, id) == [level |-> level, by |-> by, frame |-> id]

\* ------------------------------------------------------------- the callbacks
\* ws_on_message without the check of the topic field.
ws_on_message_no_topic_check(frame, id, mdNone) ==
    IF frame.json = "invalid"
    THEN [exc |-> "JSONDecodeError", logs |-> <<>>, send |-> <<>>]
    ELSE IF frame.json = "number"
    THEN [exc |-> "TypeError", logs |-> <<>>, send |-> <<>>]
    ELSE IF frame.json = "array" \/ ~Has(frame.obj, "event")
    THEN [exc |-> NoExc, logs |-> <<Rec("WARNING", "ws_on_message", id)>>, send |-> <<>>]
    ELSE IF frame.obj.event[1] # "message"
    THEN [exc |-> NoExc, logs |-> <<Rec("DEBUG", "ws_on_message", id)>>, send |-> <<>>]
    ELSE LET tg_msg == parse_message(frame.obj, mdNone) IN
         IF tg_msg.exc # NoExc
         THEN [exc |-> tg_msg.exc, logs |-> <<Rec("INFO", "ws_on_message", id)>>,
               send |-> <<>>]
         ELSE [exc |-> NoExc,
               logs |-> <<Rec("INFO", "ws_on_message", id),
                          Rec("DEBUG", "parse_message", id)>>,
               send |-> <<tg_msg.text_content>>]

\* ws_on_message up to its return, its exception or its call of
\* telegram_send_message: send is <<>> or <<text>>.
ws_on_message(frame, id, mdNone) ==
    IF frame.json = "invalid"
    THEN [exc |-> "JSONDecodeError", logs |-> <<>>, send |-> <<>>]
    ELSE IF frame.json = "number"
    THEN [exc |-> "TypeError", logs |-> <<>>, send |-> <<>>]
    ELSE IF frame.json = "array" \/ ~Has(frame.obj, "event")
    THEN [exc |-> NoExc, logs |-> <<Rec("WARNING", "ws_on_message", id)>>, send |-> <<>>]
    ELSE IF frame.obj.event[1] # "message"
    THEN [exc |-> NoExc, logs |-> <<Rec("DEBUG", "ws_on_message", id)>>, send |-> <<>>]
    ELSE IF ~Has(frame.obj, "topic")
    THEN [exc |-> NoExc, logs |-> <<Rec("WARNING", "ws_on_message", id)>>, send |-> <<>>]
    ELSE LET tg_msg == parse_message(frame.obj, mdNone) IN
         IF tg_msg.exc # NoExc
         THEN [exc |-> tg_msg.exc, logs |-> <<Rec("INFO", "ws_on_message", id)>>,
               send |-> <<>>]
         ELSE [exc |-> NoExc,
               logs |-> <<Rec("INFO", "ws_on_message", id),
                          Rec("DEBUG", "parse_message", id)>>,
               send |-> <<tg_msg.text_content>>]

\* telegram_send_message once requests.request has answered: the response is
\* OK, not OK, or the request itself raised.
Responses == {"ok", "not ok", "raised"}

\* telegram_send_message raising on a response that is not OK.
telegram_send_message_raises(response, id) ==
    IF response = "raised"
    THEN [exc |-> "RequestException", logs |-> <<>>]
    ELSE IF response = "ok"
    THEN [exc |-> NoExc, logs |-> <<Rec("INFO", "telegram_send_message", id)>>]
    ELSE [exc |-> "HTTPError", logs |-> <<Rec("ERROR", "telegram_send_message", id)>>]

telegram_send_message(response, id) ==
    IF response = "raised"
    THEN [exc |-> "RequestException", logs |-> <<>>]
    ELSE IF response = "ok"
    THEN [exc |-> NoExc, logs |-> <<Rec("INFO", "telegram_send_message", id)>>]
    ELSE [exc |-> NoExc, logs |-> <<Rec("ERROR", "telegram_send_message", id)>>]

\* id is the frame whose handler raised, 0 for an error of the transport.
ws_on_error(id) == <<Rec("ERROR", "ws_on_error", id)>>

ws_on_close == <<Rec("INFO", "ws_on_close", 0)>>

ws_on_open == <<Rec("INFO", "ws_on_open", 0), Rec("INFO", "ws_on_open", 0)>>

\* Dequeue taking the newest frame first.
DequeueNewest(q) == [id |-> q[Len(q)], rest |-> SubSeq(q, 1, Len(q) - 1)]

\* The frame run_forever hands to ws_on_message next: the oldest one.
Dequeue(q) == [id |-> Head(q), rest |-> Tail(q)]

\* ------------------------------------------------------------ the main program
Init ==
    /\ env \in Envs
    /\ ConnIdle
    /\ FmtIdle

\* Lines 301-312: the address is logged and the WebSocketApp is built.
Connect ==
    /\ conn = "Disconnected"
    /\ conn' = "Connecting"
    /\ log' = Append(log, Rec("INFO", "main", 0))
    /\ UNCHANGED <<env, frames, pending, pc, sends, responses, results, fmtVars>>

\* run_forever connected: ws_on_open.
Opened ==
    /\ conn = "Connecting"
    /\ conn' = "Open"
    /\ log' = log \o ws_on_open
    /\ UNCHANGED <<env, frames, pending, pc, sends, responses, results, fmtVars>>

\* run_forever could not connect, or lost the connection between two
\* callbacks: ws_on_error, then ws_on_close.
Failed ==
    /\ conn \in {"Connecting", "Open"}
    /\ pc = "idle"
    /\ conn' = "Closed"
    /\ log' = log \o ws_on_error(0) \o ws_on_close
    /\ UNCHANGED <<env, frames, pending, pc, sends, responses, results, fmtVars>>

\* The server closed the connection: ws_on_close.
Closed ==
    /\ conn = "Open"
    /\ pc = "idle"
    /\ conn' = "Closed"
    /\ log' = log \o ws_on_close
    /\ UNCHANGED <<env, frames, pending, pc, sends, responses, results, fmtVars>>

\* Line 313: run_forever is called once, with no reconnect interval, and is
\* the last statement: when it returns the process ends.
Exit ==
    /\ conn = "Closed"
    /\ conn' = "Exited"
    /\ UNCHANGED <<env, frames, pending, pc, sends, responses, results, log, fmtVars>>

\* A frame reaches the socket; it waits there while a callback runs.
Receive ==
    /\ conn = "Open"
    /\ Len(frames) < MaxFrames
    /\ \E f \in Frames :
        /\ frames' = Append(frames, f)
        /\ pending' = Append(pending, Len(frames) + 1)
    /\ UNCHANGED <<env, conn, pc, sends, responses, results, log, fmtVars>>

\* run_forever reads one frame and calls ws_on_message with it.  An exception
\* of the callback is caught by the transport, which calls ws_on_error.
OnMessage ==
    /\ conn = "Open"
    /\ pc = "idle"
    /\ pending # <<>>
    /\ \E mdNone \in BOOLEAN :
        LET d == Dequeue(pending)
            r == ws_on_message(frames[d.id], d.id, mdNone)
        IN  /\ pending' = d.rest
            /\ IF r.send # <<>>
               THEN /\ sends' = Append(sends, [id |-> d.id, text |-> r.send[1]])
                    /\ pc' = "sending"
                    /\ log' = log \o r.logs
                    /\ UNCHANGED results
               ELSE /\ results' = Append(results, [id |-> d.id, exc |-> r.exc])
                    /\ log' = log \o r.logs \o (IF r.exc # NoExc THEN ws_on_error(d.id) ELSE <<>>)
                    /\ UNCHANGED <<sends, pc>>
    /\ UNCHANGED <<env, conn, frames, responses, fmtVars>>

\* requests.request returns (or raises) and telegram_send_message, then
\* ws_on_message, finish.
Response ==
    /\ pc = "sending"
    /\ \E response \in Responses :
        LET id == sends[Len(sends)].id
            r == telegram_send_message(response, id)
        IN  /\ responses' = Append(responses, response)
            /\ results' = Append(results, [id |-> id, exc |-> r.exc])
            /\ log' = log \o r.logs \o (IF r.exc # NoExc THEN ws_on_error(id) ELSE <<>>)
    /\ pc' = "idle"
    /\ UNCHANGED <<env, conn, frames, pending, sends, fmtVars>>

Next ==
    \/ Connect
    \/ Opened
    \/ Failed
    \/ Closed
    \/ Exit
    \/ Receive
    \/ OnMessage
    \/ Response

Spec == Init /\ [][Next]_vars

\* ================================================================ properties
Range(q) == {q[i] : i \in DOMAIN q}

\* A frame ws_on_message is meant to forward: an object with event "message"
\* and a topic.
Actionable(f) ==
    /\ f.json = "object"
    /\ Has(f.obj, "event")
    /\ f.obj.event[1] = "message"
    /\ Has(f.obj, "topic")

Finished(id) == \E i \in DOMAIN results : results[i].id = id

ExcOf(id) == (CHOOSE r \in Range(results) : r.id = id).exc

SendsOf(id) == Cardinality({i \in DOMAIN sends : sends[i].id = id})

Logged(level, by, id) == Rec(level, by, id) \in Range(log)

\* C1: every frame with event "message" and a topic causes exactly one call
\* of telegram_send_message, whatever its other fields are.
C1_ExactlyOneSend ==
    \A id \in DOMAIN frames :
        (Finished(id) /\ Actionable(frames[id])) => SendsOf(id) = 1

\* C2: telegram_send_message is called only for frames with event "message"
\* and a topic: any other frame that was handled caused no call.
C2_OnlyActionableSent ==
    /\ \A i \in DOMAIN sends : Actionable(frames[sends[i].id])
    /\ \A id \in DOMAIN frames :
        (Finished(id) /\ ~Actionable(frames[id])) => SendsOf(id) = 0

C2_Witness ==
    /\ \E id \in DOMAIN frames :
        /\ Finished(id)
        /\ frames[id].json = "object"
        /\ frames[id].obj.event = <<"keepalive">>
        /\ Has(frames[id].obj, "topic")
    /\ \E id \in DOMAIN frames :
        /\ Finished(id)
        /\ frames[id].json = "object"
        /\ frames[id].obj.event = <<"message">>
        /\ ~Has(frames[id].obj, "topic")
    /\ sends = <<>>

\* C3: a frame that is not parseable, or whose envelope has no event field,
\* is discarded with a warning: the handler returns without raising and
\* nothing is sent.
C3_MalformedDiscarded ==
    \A id \in DOMAIN frames :
        (Finished(id) /\ (frames[id].json = "invalid"
                          \/ (frames[id].json = "object" /\ ~Has(frames[id].obj, "event"))))
        => /\ ExcOf(id) = NoExc
           /\ Logged("WARNING", "ws_on_message", id)
           /\ SendsOf(id) = 0

\* C4: a not-OK response is logged as an error and not raised: the handler
\* returns and ws_on_error is not called for it; the message is not sent
\* again, and every later frame that was formatted is sent as usual.
C4_FailureNotPropagated ==
    \A i \in DOMAIN responses :
        responses[i] = "not ok" =>
            LET id == sends[i].id IN
            /\ ExcOf(id) = NoExc
            /\ Logged("ERROR", "telegram_send_message", id)
            /\ ~Logged("INFO", "telegram_send_message", id)
            /\ SendsOf(id) = 1
            /\ ~Logged("ERROR", "ws_on_error", id)
            /\ \A j \in DOMAIN frames :
                 (j > id /\ Finished(j) /\ Actionable(frames[j])
                  /\ ExcOf(j) \notin {"TypeError", "IndexError"})
                 => SendsOf(j) = 1

C4_Witness ==
    /\ Len(responses) = 2
    /\ responses[1] = "not ok"
    /\ responses[2] = "ok"
    /\ Len(results) = 2

\* C8: the sends happen in the order the frames arrived, one handler runs at
\* a time, and while a send is unanswered no later frame has been handled.
C8_OrderedOneAtATime ==
    /\ \A i, j \in DOMAIN sends : i < j => sends[i].id < sends[j].id
    /\ \A i, j \in DOMAIN results : i < j => results[i].id < results[j].id
    /\ Len(frames) - Len(pending) - Len(results) = (IF pc = "sending" THEN 1 ELSE 0)
    /\ Len(sends) - Len(responses) = (IF pc = "sending" THEN 1 ELSE 0)
    /\ \A i \in DOMAIN sends :
         i > Len(responses) =>
            /\ \A r \in Range(results) : r.id < sends[i].id
            /\ \A k \in DOMAIN sends : sends[k].id <= sends[i].id

C8_Witness ==
    /\ Len(sends) = 2
    /\ Len(responses) = 1
    /\ pc = "sending"
    /\ sends[1].id = 1
    /\ sends[2].id = 2

\* C9: after a closure of an open connection the program reconnects; it never
\* ends the process because of a closure.  A finite run refutes the second
\* half: a process that had opened its connection has not exited.
C9_NeverExitsAfterClosure ==
    Logged("INFO", "ws_on_open", 0) => conn # "Exited"

\* ------------------------------------------------ properties of parse_message
Priority == Get(fmsg, "priority", DefaultPriority)

\* C5: a message without a body is still formatted: parse_message returns a
\* text when nothing else made it fail.
C5_MissingBodyStillFormats ==
    (~Has(fmsg, "message") /\ fexc # "IndexError") => fpc # "raised"

\* C6: with include_priority enabled, a priority outside 1..5 does not make
\* the glyph lookup fail.
C6_PriorityOutOfRangeFormats ==
    (IncludePriority /\ Has(fmsg, "priority") /\ fmsg.priority[1] \notin 1..5)
    => fexc # "IndexError"

IsMapped(tag) == tag \in DOMAIN emoji_map

IsUnmapped(tag) == ~IsMapped(tag)

TagsOf(message) == Get(message, "tags", <<>>)

Glyphs(tags) ==
    LET mapped == SelectSeq(tags, IsMapped) IN
    [i \in 1..Len(mapped) |-> emoji_map[mapped[i]]]

TopicPart == IF IncludeTopic /\ Has(fmsg, "topic") THEN <<fmsg.topic[1], "\n">> ELSE <<>>

GlyphPart ==
    LET g == Glyphs(TagsOf(fmsg)) IN IF g = <<>> THEN <<>> ELSE g \o <<" ">>

TitlePart == IF Has(fmsg, "title") THEN <<fmsg.title[1], " ">> ELSE <<>>

SeparatorPart ==
    IF Has(fmsg, "title") \/ (IncludePriority /\ Priority # 3) THEN <<"\n\n">> ELSE <<>>

IsPrefix(p, q) == Len(p) <= Len(q) /\ SubSeq(q, 1, Len(p)) = p

\* The text before the body, with g as the priority glyph.
HeadWith(g) == TopicPart \o GlyphPart \o TitlePart \o g \o SeparatorPart

\* C7: the text before the body is topic line, tag glyphs, title, priority
\* glyph and separator, in this order, each under its own condition.
C7_HeadOrder ==
    fpc \in {"body", "done"} =>
        \E g \in (IF IncludePriority THEN {<<x>> : x \in Range(priority_emoji)} ELSE {<<>>}) :
            /\ (IncludePriority /\ Priority \in 1..5) => g = <<priority_emoji[Priority]>>
            /\ IF fpc = "body" THEN text_content = HeadWith(g)
                               ELSE IsPrefix(HeadWith(g), text_content)

C7_Witness ==
    /\ fpc = "body"
    /\ IncludeTopic
    /\ IncludePriority
    /\ Has(fmsg, "topic")
    /\ Has(fmsg, "title")
    /\ Priority = 5
    /\ TagsOf(fmsg) = <<"foo", "warning">>

\* Position of the tags line in a text, 0 when there is none.
TagsLineAt(text) ==
    IF \E i \in DOMAIN text : text[i] = "\ntags: "
    THEN CHOOSE i \in DOMAIN text : text[i] = "\ntags: "
    ELSE 0

\* C10: the glyph prefix is the glyphs of the mapped tags in input order,
\* followed by one space iff there is one; the tags line lists exactly the
\* unmapped tags, in order and with duplicates, and is absent without any.
C10_TagPartition ==
    LET tags == TagsOf(fmsg)
        rest == SelectSeq(tags, IsUnmapped)
        g == Glyphs(tags)
        at == Len(TopicPart)
        line == TagsLineAt(text_content)
    IN  /\ fpc \in {"body", "done"} =>
            /\ non_emoji_tags = rest
            /\ \A i \in 1..Len(g) : text_content[at + i] = g[i]
            /\ g # <<>> => text_content[at + Len(g) + 1] = " "
            /\ LET after == at + Len(g) + (IF g = <<>> THEN 0 ELSE 1) + 1 IN
               after <= Len(text_content) =>
                    /\ text_content[after] # " "
                    /\ text_content[after] \notin Range(emoji_map)
        /\ fpc = "body" => line = 0
        /\ fpc = "done" =>
            /\ (line = 0) <=> (rest = <<>>)
            /\ line # 0 =>
                /\ Cardinality({i \in DOMAIN text_content : text_content[i] = "\ntags: "}) = 1
                /\ line + 2 * Len(rest) - 1 <= Len(text_content)
                /\ \A j \in 1..Len(rest) : text_content[line + 2 * j - 1] = rest[j]
                /\ \A j \in 1..(Len(rest) - 1) : text_content[line + 2 * j] = ","
                /\ \/ line + 2 * Len(rest) - 1 = Len(text_content)
                   \/ text_content[line + 2 * Len(rest)] = "\n["

C10_Witness ==
    /\ fpc = "done"
    /\ TagsOf(fmsg) = <<"bar", "tada">>
    /\ Has(fmsg, "click")

====
